---- MODULE Spec2Model ----
(***************************************************************************)
(* A model of the OpenQASM 3 bridge of crates/qasm3: the four entry points *)
(* of lib.rs (loads, load, dumps, dump), the option record they build, and *)
(* the builder and exporter they call.  lib.rs is modelled from its code;  *)
(* build::convert_asg and exporter::Exporter are modelled from the         *)
(* specification (sections 4.2 and 4.3).                                   *)
(*                                                                         *)
(* A string is a sequence of Unicode code points, a byte string a sequence *)
(* of numbers below 256.  Every call is one action; its inputs are drawn   *)
(* from bounded sets and its outcome is recorded in the variables.         *)
(***************************************************************************)
EXTENDS Integers, Sequences, FiniteSets, TLC

VARIABLES
    op,         \* the entry point of the last call: "none", "loads", "load", "dumps", "dump"
    args,       \* the arguments of the last call
    cause,      \* the step of the last call that failed, or "none"
    ret,        \* what the last call returned: a value or an error
    exporter,   \* the exporter the last call constructed (made = FALSE: none)
    circuit,    \* the caller's circuit object as the last call left it
    stream,     \* the texts the caller's stream received during the last call
    process,    \* the exporter memo tables the last export call left in memory
    probe,      \* ghost: an export input whose first text is remembered
    probeText   \* ghost: the text of the first successful export of probe

vars == <<op, args, cause, ret, exporter, circuit, stream, process, probe, probeText>>

(***************************************************************************)
(* Bounds of the model.                                                    *)
(***************************************************************************)
\* longest instruction list of an exported circuit (specification SpecExport)
MaxInstr == 3
\* longest instruction list of an exported circuit in SpecHistory
SmallInstr == 2
\* longest statement list of an imported program
MaxStmts == 3
\* longest list of caller-supplied custom gates
MaxCustom == 1

(***************************************************************************)
(* Strings.                                                                *)
(***************************************************************************)
RECURSIVE Concat(_)
Concat(ss) == IF ss = <<>> THEN <<>> ELSE Head(ss) \o Concat(Tail(ss))

S_include == <<105, 110, 99, 108, 117, 100, 101, 32>>              \* 'include '
S_stdgates == <<115, 116, 100, 103, 97, 116, 101, 115, 46, 105, 110, 99>>  \* 'stdgates.inc'
S_myinc == <<109, 121, 46, 105, 110, 99>>                          \* 'my.inc'
S_qubit == <<113, 117, 98, 105, 116, 91>>                          \* 'qubit['
S_gate == <<103, 97, 116, 101, 32>>                                \* 'gate '
S_open == <<32, 123, 10>>                                          \* ' {' newline
S_close == <<125, 10>>                                             \* '}' newline
S_U == <<85, 40, 48, 44, 32, 48, 44, 32, 48, 41, 32>>              \* 'U(0, 0, 0) '
S_let == <<108, 101, 116, 32>>                                     \* 'let '
S_const == <<99, 111, 110, 115, 116, 32, 102, 108, 111, 97, 116, 32>>  \* 'const float '
S_pi == <<112, 105>>                                               \* 'pi'
S_pilit == <<51, 46, 49, 52, 49, 53, 57, 50, 54, 53, 51, 53, 56, 57, 55, 57, 51>>
S_q == <<113>>
S_a == <<97>>
S_b == <<98>>
S_h == <<104>>
S_foo == <<102, 111, 111>>
S_bar == <<98, 97, 114>>
S_my == <<109, 121>>
S_zz == <<122, 122>>
S_two == <<32, 32>>                                                \* two spaces
S_nbsp == <<160>>                                                  \* U+00A0, two bytes in UTF-8
S_surrogate == <<55296>>                                           \* a lone surrogate, U+D800
S_semi == <<59, 10>>                                               \* ';' newline

Digit(n) == <<48 + n>>

\* A Rust String holds Unicode scalar values only: no surrogate code point.
IsScalar(c) == c >= 0 /\ c < 1114112 /\ ~(c >= 55296 /\ c <= 57343)
IsRustString(s) == \A i \in 1..Len(s) : IsScalar(s[i])

(***************************************************************************)
(* UTF-8, for code points below U+10000 (one to three bytes).              *)
(***************************************************************************)
Utf8Char(c) ==
    IF c < 128 THEN <<c>>
    ELSE IF c < 2048 THEN <<192 + (c \div 64), 128 + (c % 64)>>
    ELSE <<224 + (c \div 4096), 128 + ((c \div 64) % 64), 128 + (c % 64)>>

\* the encoding of a string is the concatenation of its characters' encodings
\* (computed by halves; ASCII text is its own encoding)
RECURSIVE Utf8Encode(_)
Utf8Encode(s) ==
    IF \A i \in 1..Len(s) : s[i] < 128 THEN s
    ELSE IF Len(s) = 1 THEN Utf8Char(s[1])
    ELSE Utf8Encode(SubSeq(s, 1, Len(s) \div 2)) \o Utf8Encode(SubSeq(s, Len(s) \div 2 + 1, Len(s)))

IsCont(b) == b >= 128 /\ b < 192

\* the length a lead byte announces; 0 for a byte that cannot start a character
CharLen(b) ==
    IF b < 128 THEN 1
    ELSE IF b >= 194 /\ b < 224 THEN 2
    ELSE IF b >= 224 /\ b < 240 THEN 3
    ELSE 0

\* one character from exactly its bytes, refusing a missing or stray
\* continuation byte, an overlong form and a surrogate
DecodeChar(bs) ==
    LET b == bs[1]
        n == CharLen(b)
        c == IF n = 1 THEN b
             ELSE IF n = 2 THEN (b - 192) * 64 + (bs[2] - 128)
             ELSE (b - 224) * 4096 + (bs[2] - 128) * 64 + (bs[3] - 128)
    IN IF n = 0 \/ Len(bs) # n \/ (\E i \in 2..n : ~IsCont(bs[i]))
       THEN [ok |-> FALSE, s |-> <<>>]
       ELSE IF (n = 3 /\ c < 2048) \/ ~IsScalar(c)
       THEN [ok |-> FALSE, s |-> <<>>]
       ELSE [ok |-> TRUE, s |-> <<c>>]

\* String::from_utf8: the decoded string, or an error on an ill-formed sequence.
\* The bytes are cut at the first character boundary at or after the middle (a
\* character has at most three bytes, so one lies within three bytes unless the
\* rest is ill-formed) and the halves decoded; a run with no such boundary is
\* decoded as one character.  Bytes below 128 alone are ASCII text.
RECURSIVE FromUtf8(_)
FromUtf8(bs) ==
    IF \A i \in 1..Len(bs) : bs[i] < 128 THEN [ok |-> TRUE, s |-> bs]
    ELSE LET mid == Len(bs) \div 2 + 1
             near == {i \in mid..(mid + 3) : i >= 2 /\ i <= Len(bs) /\ ~IsCont(bs[i])}
             early == {i \in 2..3 : i <= Len(bs) /\ ~IsCont(bs[i])}
             cuts == IF near # {} THEN near ELSE early
         IN IF cuts = {}
            THEN DecodeChar(bs)
            ELSE LET cut == CHOOSE i \in cuts : \A j \in cuts : i <= j
                     l == FromUtf8(SubSeq(bs, 1, cut - 1))
                     r == FromUtf8(SubSeq(bs, cut, Len(bs)))
                 IN IF l.ok /\ r.ok THEN [ok |-> TRUE, s |-> l.s \o r.s]
                    ELSE [ok |-> FALSE, s |-> <<>>]

(***************************************************************************)
(* Results and error kinds.                                                *)
(***************************************************************************)
\* the exception class lib.rs raises itself
QASM3ImporterError == "QASM3ImporterError"
\* any other Python exception a `?` propagates (TypeError, AttributeError, ...)
PyErr == "PyErr"

NoText == <<>>
NoCircuit == [made |-> FALSE, instructions |-> <<>>]

\* a PyResult: Err(kind, message), or Ok of a string, of () or of a circuit
Failure(kind, msg) ==
    [ok |-> FALSE, kind |-> kind, msg |-> msg, ident |-> <<>>, text |-> NoText, circ |-> NoCircuit]
TextResult(t) ==
    [ok |-> TRUE, kind |-> "none", msg |-> "", ident |-> <<>>, text |-> t, circ |-> NoCircuit]
UnitResult ==
    [ok |-> TRUE, kind |-> "none", msg |-> "", ident |-> <<>>, text |-> NoText, circ |-> NoCircuit]
CircuitResult(c) ==
    [ok |-> TRUE, kind |-> "none", msg |-> "", ident |-> <<>>, text |-> NoText, circ |-> c]

(***************************************************************************)
(* Python values handed in as keyword options, and their extraction.       *)
(***************************************************************************)
Absent == [t |-> "absent", b |-> FALSE, s |-> <<>>, l |-> <<>>]
VList(l) == [t |-> "list", b |-> FALSE, s |-> <<>>, l |-> l]
VStr(s) == [t |-> "str", b |-> FALSE, s |-> s, l |-> <<>>]
VBool(b) == [t |-> "bool", b |-> b, s |-> <<>>, l |-> <<>>]
VInt == [t |-> "int", b |-> FALSE, s |-> <<>>, l |-> <<>>]

\* val.extract::<Vec<String>>(): a sequence of str; a bare str is refused
ExtractVecString(v) ==
    [ok |-> v.t = "list" /\ \A i \in 1..Len(v.l) : IsRustString(v.l[i]), l |-> v.l]
\* val.extract::<bool>(): a Python bool only
ExtractBool(v) == [ok |-> v.t = "bool", b |-> v.b]
\* val.extract::<String>(): a str that encodes to UTF-8
ExtractString(v) == [ok |-> v.t = "str" /\ IsRustString(v.s), s |-> v.s]

OptionKeys == {"includes", "basis_gates", "disable_constants", "allow_aliasing", "indent"}
\* a key no option is named by
OtherKey == "optimize"
DictKeys == OptionKeys \cup {OtherKey}

\* kwargs: None, or a dict; a dict maps every key it holds to a value
NoKwargs == [given |-> FALSE, items |-> [k \in DictKeys |-> Absent]]
Dict(items) == [given |-> TRUE, items |-> items]
\* kw.get_item(key)
HasItem(kw, key) == kw.given /\ kw.items[key].t # "absent"

DefaultOptions ==
    [includes |-> <<S_stdgates>>,
     basis_gates |-> <<>>,
     disable_constants |-> TRUE,
     allow_aliasing |-> FALSE,
     indent |-> S_two]


OptionsAcc(o) == [ok |-> TRUE, options |-> o]
OptionsErr(o) == [ok |-> FALSE, options |-> o]

\* if let Some(val) = kw.get_item(key)? { options.<key> = val.extract()?; }
SetIncludes(acc, kw) ==
    IF ~acc.ok \/ ~HasItem(kw, "includes") THEN acc
    ELSE LET e == ExtractVecString(kw.items["includes"])
         IN IF e.ok THEN OptionsAcc([acc.options EXCEPT !.includes = e.l])
            ELSE OptionsErr(acc.options)

\* the basis_gates block stores its value in the field of the block above it
SetBasisGatesIntoIncludes(acc, kw) ==
    IF ~acc.ok \/ ~HasItem(kw, "basis_gates") THEN acc
    ELSE LET e == ExtractVecString(kw.items["basis_gates"])
         IN IF e.ok THEN OptionsAcc([acc.options EXCEPT !.includes = e.l])
            ELSE OptionsErr(acc.options)

SetBasisGates(acc, kw) ==
    IF ~acc.ok \/ ~HasItem(kw, "basis_gates") THEN acc
    ELSE LET e == ExtractVecString(kw.items["basis_gates"])
         IN IF e.ok THEN OptionsAcc([acc.options EXCEPT !.basis_gates = e.l])
            ELSE OptionsErr(acc.options)

SetDisableConstants(acc, kw) ==
    IF ~acc.ok \/ ~HasItem(kw, "disable_constants") THEN acc
    ELSE LET e == ExtractBool(kw.items["disable_constants"])
         IN IF e.ok THEN OptionsAcc([acc.options EXCEPT !.disable_constants = e.b])
            ELSE OptionsErr(acc.options)

SetAllowAliasing(acc, kw) ==
    IF ~acc.ok \/ ~HasItem(kw, "allow_aliasing") THEN acc
    ELSE LET e == ExtractBool(kw.items["allow_aliasing"])
         IN IF e.ok THEN OptionsAcc([acc.options EXCEPT !.allow_aliasing = e.b])
            ELSE OptionsErr(acc.options)

SetIndent(acc, kw) ==
    IF ~acc.ok \/ ~HasItem(kw, "indent") THEN acc
    ELSE LET e == ExtractString(kw.items["indent"])
         IN IF e.ok THEN OptionsAcc([acc.options EXCEPT !.indent = e.s])
            ELSE OptionsErr(acc.options)

\* the options of a dumps call: the defaults, then the five keys in the code's order
DumpsOptions(kw) ==
    SetIndent(SetAllowAliasing(SetDisableConstants(SetBasisGates(
        SetIncludes(OptionsAcc(DefaultOptions), kw), kw), kw), kw), kw)

\* dump's copy of the block lacks the indent key
DumpOptionsNoIndent(kw) ==
    SetAllowAliasing(SetDisableConstants(SetBasisGates(
        SetIncludes(OptionsAcc(DefaultOptions), kw), kw), kw), kw)

\* the options of a dump call: the same block, written out a second time in dump
DumpOptions(kw) ==
    SetIndent(SetAllowAliasing(SetDisableConstants(SetBasisGates(
        SetIncludes(OptionsAcc(DefaultOptions), kw), kw), kw), kw), kw)

(***************************************************************************)
(* The circuit an export reads.                                            *)
(*   data.nq            size of the quantum register q                     *)
(*   data.aliases       alias table: name, and the slice q[lo:hi] it views *)
(*   data.instructions  execution order; an instruction has a gate name,   *)
(*                      the gate's declared arity nq, parameters, operands *)
(* An operand is a reference reg[idx] to the register q or to an alias.    *)
(***************************************************************************)
Ref(reg, idx) == [reg |-> reg, idx |-> idx]
Instr(name, nq, params, qargs) == [name |-> name, nq |-> nq, params |-> params, qargs |-> qargs]
CircuitData(nq, aliases, instrs) == [nq |-> nq, aliases |-> aliases, instructions |-> instrs]
\* a Python object: with or without a _data attribute holding a CircuitData
PyCircuit(data, layout) == [hasData |-> TRUE, data |-> data, layout |-> layout]
NotACircuit == [hasData |-> FALSE, data |-> CircuitData(0, <<>>, <<>>), layout |-> FALSE]

\* the gates stdgates.inc defines (those the model's circuits use)
StdGateNames == {S_h, <<120>>}

(***************************************************************************)
(* Exporter.                                                               *)
(***************************************************************************)
\* exporter memo tables, in insertion order: emitted gate definitions and
\* declared named constants
EmptyMemo == [defined |-> <<>>, constants |-> <<>>]

MakeExporter(includes, basis_gates, disable_constants, allow_aliasing, indent, memo) ==
    [made |-> TRUE, includes |-> includes, basis_gates |-> basis_gates,
     disable_constants |-> disable_constants, allow_aliasing |-> allow_aliasing,
     indent |-> indent, memo |-> memo]

NoExporter == [made |-> FALSE, includes |-> <<>>, basis_gates |-> <<>>,
               disable_constants |-> FALSE, allow_aliasing |-> FALSE,
               indent |-> <<>>, memo |-> EmptyMemo]

\* an exporter whose memo tables are those the previous export call left behind
ExporterKept(options) ==
    MakeExporter(options.includes, options.basis_gates, options.disable_constants,
                 options.allow_aliasing, options.indent, process)

\* an exporter that never receives the caller's basis gates
ExporterNoBasis(options) ==
    MakeExporter(options.includes, <<>>, options.disable_constants,
                 options.allow_aliasing, options.indent, EmptyMemo)

\* exporter::Exporter::new(options.includes, ..., options.indent): a new exporter per call
ExporterNew(options) ==
    MakeExporter(options.includes, options.basis_gates, options.disable_constants,
                 options.allow_aliasing, options.indent, EmptyMemo)

InSeq(x, s) == \E i \in 1..Len(s) : s[i] = x

\* first occurrences, in order
RECURSIVE Dedup(_, _)
Dedup(s, seen) ==
    IF s = <<>> THEN <<>>
    ELSE IF InSeq(Head(s), seen) THEN Dedup(Tail(s), seen)
    ELSE <<Head(s)>> \o Dedup(Tail(s), Append(seen, Head(s)))

RECURSIVE Join(_, _)
Join(ss, sep) ==
    IF ss = <<>> THEN <<>>
    ELSE IF Len(ss) = 1 THEN ss[1]
    ELSE ss[1] \o sep \o Join(Tail(ss), sep)

IncludeLine(f) == S_include \o <<34>> \o f \o <<34>> \o S_semi
RegisterDecl(data) == S_qubit \o Digit(data.nq) \o <<93, 32>> \o S_q \o S_semi
AliasDecl(al) ==
    S_let \o al.name \o <<32, 61, 32>> \o S_q \o <<91>> \o Digit(al.lo) \o <<58>>
        \o Digit(al.hi) \o <<93>> \o S_semi

\* operands use alias names only when aliasing is allowed and a layout is present
AliasMode(exp, layout) == exp.allow_aliasing /\ layout

Header(exp, data, layout) ==
    (LET files == Dedup(exp.includes, <<>>)
     IN Concat([i \in 1..Len(files) |-> IncludeLine(files[i])]))
    \o RegisterDecl(data)
    \o (IF AliasMode(exp, layout)
        THEN Concat([i \in 1..Len(data.aliases) |-> AliasDecl(data.aliases[i])])
        ELSE <<>>)

\* the physical index a reference resolves to, or -1
Resolve(data, r) ==
    IF r.reg = S_q THEN (IF r.idx >= 0 /\ r.idx < data.nq THEN r.idx ELSE -1)
    ELSE IF \E i \in 1..Len(data.aliases) : data.aliases[i].name = r.reg
    THEN LET al == data.aliases[CHOOSE i \in 1..Len(data.aliases) : data.aliases[i].name = r.reg]
         IN IF r.idx >= 0 /\ al.lo + r.idx < al.hi /\ al.lo + r.idx < data.nq
            THEN al.lo + r.idx ELSE -1
    ELSE -1

Operand(exp, data, layout, r) ==
    IF AliasMode(exp, layout) THEN r.reg \o <<91>> \o Digit(r.idx) \o <<93>>
    ELSE S_q \o <<91>> \o Digit(Resolve(data, r)) \o <<93>>

\* a parameter is "pi" or "pi/2": a literal when constants are disabled, else symbolic
FormatParam(p, disable_constants) ==
    IF disable_constants
    THEN (IF p = "pi" THEN S_pilit
          ELSE <<49, 46, 53, 55, 48, 55, 57, 54, 51, 50, 54, 55, 57, 52, 56, 57, 54, 54>>)
    ELSE (IF p = "pi" THEN S_pi ELSE S_pi \o <<47, 50>>)

ConstDecl == S_const \o S_pi \o <<32, 61, 32>> \o S_pilit \o S_semi

Formal(i) == <<96 + i>>
GateDef(exp, ins) ==
    S_gate \o ins.name
    \o (IF Len(ins.params) > 0 THEN <<40, 112, 41>> ELSE <<>>)
    \o <<32>> \o Join([i \in 1..ins.nq |-> Formal(i)], <<44, 32>>) \o S_open
    \o Concat([i \in 1..ins.nq |-> exp.indent \o S_U \o Formal(i) \o S_semi])
    \o S_close

Statement(exp, data, layout, ins) ==
    ins.name
    \o (IF Len(ins.params) > 0
        THEN <<40>> \o Join([i \in 1..Len(ins.params) |->
                               FormatParam(ins.params[i], exp.disable_constants)], <<44, 32>>)
             \o <<41>>
        ELSE <<>>)
    \o <<32>>
    \o Join([i \in 1..Len(ins.qargs) |-> Operand(exp, data, layout, ins.qargs[i])], <<44, 32>>)
    \o S_semi

\* a gate the exporter references without defining: a basis gate, or one a
\* declared include file defines
ReferenceOnly(exp, name) ==
    InSeq(name, exp.basis_gates) \/ (InSeq(S_stdgates, exp.includes) /\ name \in StdGateNames)

Malformed(data, ins) ==
    Len(ins.qargs) # ins.nq \/ \E i \in 1..Len(ins.qargs) : Resolve(data, ins.qargs[i]) = -1

\* The traversal from instruction i on.  st holds the text written to the sink
\* so far and the memo tables.  The first malformed instruction aborts it.
RECURSIVE Emit(_, _, _, _, _)
Emit(exp, data, layout, i, st) ==
    IF i > Len(data.instructions) THEN [ok |-> TRUE, index |-> 0, text |-> st.text, memo |-> st.memo]
    ELSE LET ins == data.instructions[i]
         IN IF Malformed(data, ins)
            THEN [ok |-> FALSE, index |-> i, text |-> st.text, memo |-> st.memo]
            ELSE LET needConst == ~exp.disable_constants /\ Len(ins.params) > 0
                                  /\ ~InSeq(S_pi, st.memo.constants)
                     needDef == ~ReferenceOnly(exp, ins.name) /\ ~InSeq(ins.name, st.memo.defined)
                     text == st.text
                             \o (IF needConst THEN ConstDecl ELSE <<>>)
                             \o (IF needDef THEN GateDef(exp, ins) ELSE <<>>)
                             \o Statement(exp, data, layout, ins)
                     memo == [defined |-> IF needDef THEN Append(st.memo.defined, ins.name)
                                          ELSE st.memo.defined,
                              constants |-> IF needConst THEN Append(st.memo.constants, S_pi)
                                            ELSE st.memo.constants]
                 IN Emit(exp, data, layout, i + 1, [text |-> text, memo |-> memo])

\* one export: what the sink received (all of the text, or on an error the
\* prefix written before it), and the memo tables at the end
Export(exp, data, layout) ==
    Emit(exp, data, layout, 1, [text |-> Header(exp, data, layout), memo |-> exp.memo])

\* Exporter::dumps: the text in an in-memory accumulator, returned whole
ExporterDumps(exp, data, layout) ==
    LET r == Export(exp, data, layout)
    IN [ok |-> r.ok, index |-> r.index, s |-> IF r.ok THEN r.text ELSE NoText, memo |-> r.memo]

\* Exporter::dump: the same text written to a byte sink as UTF-8
ExporterDump(exp, data, layout) ==
    LET r == Export(exp, data, layout)
    IN [ok |-> r.ok, index |-> r.index, bytes |-> Utf8Encode(r.text), memo |-> r.memo]


(***************************************************************************)
(* dumps and dump.                                                         *)
(***************************************************************************)
\* the exporter takes the circuit and empties its instruction list
DrainedCircuit(c) == [c EXCEPT !.data.instructions = <<>>]

\* circuit.getattr("_data")?.downcast::<CircuitData>()?.borrow(), handed on as
\* &circuit_data: a shared borrow, through which the callee cannot write
BorrowedCircuit(c) == c

ExportErrorKind == QASM3ImporterError
DumpsErrorMsg == "failed to export circuit using qasm3.dumps_experimental"
DumpErrorMsg == "failed to export circuit using qasm3.dump_experimental"

\* an export input: the circuit object (with its layout) and the kwargs
ExportInput(c, kw) == [on |-> TRUE, circ |-> c, kw |-> kw]
NoProbe == [on |-> FALSE, circ |-> NotACircuit, kw |-> NoKwargs]
NoProbeText == [n |-> 0, others |-> FALSE, text |-> NoText]

\* ghost bookkeeping: the first text exported for the probe input, how many
\* exports of the probe produced a text (counted to 2), and whether an export
\* of another input ran after the first
ProbeAfter(c, kw, produced, text) ==
    IF ~probe.on THEN probeText
    ELSE IF ExportInput(c, kw) = probe /\ produced
    THEN [n |-> IF probeText.n = 0 THEN 1 ELSE 2,
          others |-> probeText.others,
          text |-> IF probeText.n = 0 THEN text ELSE probeText.text]
    ELSE [probeText EXCEPT !.others = (probeText.n > 0)]

Idle == op = "none"

\* dumps(circuit, kwargs): the exported text as a string
DumpsOutcome(c, kw) ==
    LET po == DumpsOptions(kw)
    IN IF ~po.ok
       THEN [cause |-> "options", ret |-> Failure(PyErr, "extract"), exp |-> NoExporter,
             ran |-> FALSE, memo |-> EmptyMemo]
       ELSE IF ~c.hasData
       THEN [cause |-> "circuit", ret |-> Failure(PyErr, "getattr"), exp |-> NoExporter,
             ran |-> FALSE, memo |-> EmptyMemo]
       ELSE LET exp == ExporterNew(po.options)
                r == ExporterDumps(exp, BorrowedCircuit(c).data, c.layout)
            IN IF ~r.ok
               THEN [cause |-> "export", ret |-> Failure(ExportErrorKind, DumpsErrorMsg),
                     exp |-> exp, ran |-> TRUE, memo |-> r.memo]
               ELSE [cause |-> "none", ret |-> TextResult(r.s),
                     exp |-> exp, ran |-> TRUE, memo |-> r.memo]

DumpsCall(c, kw) ==
    \E o \in {DumpsOutcome(c, kw)} :
       /\ op' = "dumps"
       /\ args' = [circ |-> c, kw |-> kw, streamOk |-> TRUE]
       /\ cause' = o.cause
       /\ ret' = o.ret
       /\ exporter' = o.exp
       /\ circuit' = BorrowedCircuit(c)
       /\ stream' = <<>>
       /\ process' = IF o.ran THEN o.memo ELSE process
       /\ probeText' = ProbeAfter(c, kw, o.ret.ok, o.ret.text)
       /\ UNCHANGED probe

\* the exporter writes straight into the caller's stream: on an error the
\* stream has received the prefix written so far
StreamedWrites(r, decoded) == IF decoded.ok THEN <<decoded.s>> ELSE <<>>

\* let mut output = Vec::new(); exporter.dump(.., &mut output)?;
\* String::from_utf8(output)?; stream.call_method1("write", (output_str,))
\* the texts handed to stream.write: the whole text, once, after both succeeded
BufferedWrites(r, decoded) == IF r.ok /\ decoded.ok THEN <<decoded.s>> ELSE <<>>

\* dump(circuit, stream, kwargs): the exported text written to the stream
DumpOutcome(c, kw, streamOk) ==
    LET po == DumpOptions(kw)
    IN IF ~po.ok
       THEN [cause |-> "options", ret |-> Failure(PyErr, "extract"), exp |-> NoExporter,
             ran |-> FALSE, memo |-> EmptyMemo, writes |-> <<>>]
       ELSE IF ~c.hasData
       THEN [cause |-> "circuit", ret |-> Failure(PyErr, "getattr"), exp |-> NoExporter,
             ran |-> FALSE, memo |-> EmptyMemo, writes |-> <<>>]
       ELSE LET exp == ExporterNew(po.options)
                r == ExporterDump(exp, BorrowedCircuit(c).data, c.layout)
                decoded == FromUtf8(r.bytes)
                writes == BufferedWrites(r, decoded)
                ret0 == IF ~r.ok THEN Failure(ExportErrorKind, DumpErrorMsg)
                        ELSE IF ~decoded.ok THEN Failure(QASM3ImporterError, "invalid utf-8 output")
                        ELSE IF ~streamOk THEN Failure(PyErr, "write")
                        ELSE UnitResult
                cause0 == IF ~r.ok THEN "export"
                          ELSE IF ~decoded.ok THEN "utf8"
                          ELSE IF ~streamOk THEN "write"
                          ELSE "none"
            IN [cause |-> cause0, ret |-> ret0, exp |-> exp, ran |-> TRUE,
                memo |-> r.memo, writes |-> writes]

DumpCall(c, kw, streamOk) ==
    \E o \in {DumpOutcome(c, kw, streamOk)} :
       /\ op' = "dump"
       /\ args' = [circ |-> c, kw |-> kw, streamOk |-> streamOk]
       /\ cause' = o.cause
       /\ ret' = o.ret
       /\ exporter' = o.exp
       /\ circuit' = BorrowedCircuit(c)
       /\ stream' = o.writes
       /\ process' = IF o.ran THEN o.memo ELSE process
       /\ probeText' = ProbeAfter(c, kw, Len(o.writes) = 1,
                                  IF Len(o.writes) = 1 THEN o.writes[1] ELSE NoText)
       /\ UNCHANGED probe

(***************************************************************************)
(* loads and load.                                                         *)
(*   src.errors   the front-end reports a parse or semantic error          *)
(*   src.stmts    the program: user gate definitions and gate calls        *)
(***************************************************************************)
Source(errors, stmts) == [errors |-> errors, stmts |-> stmts]
Def(name) == [kind |-> "def", name |-> name]
Call(name) == [kind |-> "call", name |-> name]

\* Option<Vec<PyGate>>: None, or the caller's gates in order
NoCustom == [given |-> FALSE, list |-> <<>>]
Custom(list) == [given |-> TRUE, list |-> list]
\* Option<Vec<OsString>>: None, or the caller's search path
NoPath == [given |-> FALSE]
SomePath == [given |-> TRUE]

\* the names a program of the model may call
GateNames == {S_h, S_my, S_foo, S_zz}
TableNames == GateNames \cup StdGateNames
NoGate == [origin |-> "none", pos |-> 0]

\* oq3_semantics::parse_source_string, the external front-end: its diagnostics
\* and the program it hands on
ParseSourceString(src) == [anyErrors |-> src.errors, program |-> src.stmts]

\* front-end failures raised as an exception class of their own
ParseErrorKindOwn == "QASM3ParseError"
ParseErrorKind == QASM3ImporterError
ParseErrorMsg == "errors during parsing; see printed errors"
ReadErrorKind == QASM3ImporterError
ReadErrorMsg == "failed to read file"

\* the front-end's diagnostics are printed and the call goes on
ErrorsIgnored(result) == FALSE

\* if result.any_errors() { result.print_errors(); return Err(..) }
AnyErrors(result) == result.anyErrors

LastIndex(list, n) ==
    IF \E i \in 1..Len(list) : list[i] = n
    THEN CHOOSE i \in 1..Len(list) : list[i] = n /\ \A j \in (i + 1)..Len(list) : list[j] # n
    ELSE 0

\* the standard-library constructors are added to the caller's gates, which
\* take precedence
GateTableMerged(custom, hostOk) ==
    IF custom.given
    THEN [ok |-> hostOk,
          table |-> [n \in TableNames |->
                        IF LastIndex(custom.list, n) > 0
                        THEN [origin |-> "custom", pos |-> LastIndex(custom.list, n)]
                        ELSE IF n \in StdGateNames THEN [origin |-> "std", pos |-> 0]
                        ELSE NoGate]]
    ELSE [ok |-> hostOk,
          table |-> [n \in TableNames |->
                        IF n \in StdGateNames THEN [origin |-> "std", pos |-> 0] ELSE NoGate]]

\* let gates = match custom_gates { Some(gates) => by name (a later gate of the
\* same name replaces an earlier one), None => qiskit.qasm3.STDGATES_INC_GATES }
GateTable(custom, hostOk) ==
    IF custom.given
    THEN [ok |-> TRUE,
          table |-> [n \in TableNames |->
                        IF LastIndex(custom.list, n) > 0
                        THEN [origin |-> "custom", pos |-> LastIndex(custom.list, n)]
                        ELSE NoGate]]
    ELSE [ok |-> hostOk,
          table |-> [n \in TableNames |->
                        IF n \in StdGateNames THEN [origin |-> "std", pos |-> 0] ELSE NoGate]]

\* the error kind of the builder
BuildErrorKind == "BuildError"

\* The builder's traversal from statement i on: scope holds the user gates
\* defined so far, instrs the instructions appended so far.  A call resolves to
\* (a) a user gate in scope, expanded inline (the body of a user gate of the
\* model is one built-in U), else (b, c) the gate-resolution capability; an
\* unresolved call aborts the build.
RECURSIVE BuildFrom(_, _, _, _, _)
BuildFrom(program, table, i, scope, instrs) ==
    IF i > Len(program) THEN [ok |-> TRUE, instrs |-> instrs, ident |-> <<>>]
    ELSE LET st == program[i]
         IN IF st.kind = "def"
            THEN BuildFrom(program, table, i + 1, scope \cup {st.name}, instrs)
            ELSE IF st.name \in scope
            THEN BuildFrom(program, table, i + 1, scope,
                           Append(instrs, [gate |-> <<85>>, of |-> st.name, via |-> "user"]))
            ELSE IF table[st.name].origin # "none"
            THEN BuildFrom(program, table, i + 1, scope,
                           Append(instrs, [gate |-> st.name, of |-> st.name,
                                           via |-> table[st.name].origin]))
            ELSE [ok |-> FALSE, instrs |-> instrs, ident |-> st.name]

\* build::convert_asg: the circuit, or a BuildError naming the identifier; the
\* instructions built before an error are dropped with the builder
ConvertAsg(program, table) ==
    LET b == BuildFrom(program, table, 1, {}, <<>>)
    IN IF b.ok THEN CircuitResult([made |-> TRUE, instructions |-> b.instrs])
       ELSE [Failure(BuildErrorKind, "unresolved gate") EXCEPT !.ident = b.ident]

\* loads(source, custom_gates, include_path)
LoadsOutcome(src, custom, path, hostOk) ==
    IF ~path.given /\ ~hostOk
    THEN [cause |-> "include_path", ret |-> Failure(PyErr, "import qiskit")]
    ELSE LET result == ParseSourceString(src)
         IN IF AnyErrors(result)
            THEN [cause |-> "frontend", ret |-> Failure(ParseErrorKind, ParseErrorMsg)]
            ELSE LET gates == GateTable(custom, hostOk)
                 IN IF ~gates.ok
                    THEN [cause |-> "gates", ret |-> Failure(PyErr, "import qiskit.qasm3")]
                    ELSE LET r == ConvertAsg(result.program, gates.table)
                         IN [cause |-> IF r.ok THEN "none" ELSE "build", ret |-> r]

\* the pathlike_or_filelike argument of load: an open text stream, a path, or
\* neither; ok tells whether reading it succeeds
File(kind, ok) == [kind |-> kind, ok |-> ok]
NoFile == File("string", TRUE)

\* load(pathlike_or_filelike, custom_gates, include_path)
LoadOutcome(file, src, custom, path, hostOk) ==
    IF file.kind = "stream" /\ ~file.ok
    THEN [cause |-> "read", ret |-> Failure(PyErr, "read")]
    ELSE IF file.kind = "other"
    THEN [cause |-> "read", ret |-> Failure(PyErr, "fspath")]
    ELSE IF file.kind = "path" /\ ~file.ok
    THEN [cause |-> "read", ret |-> Failure(ReadErrorKind, ReadErrorMsg)]
    ELSE LoadsOutcome(src, custom, path, hostOk)

ImportCall(name, file, src, custom, path, hostOk, o) ==
    /\ op' = name
    /\ args' = [file |-> file, src |-> src, custom |-> custom, path |-> path, hostOk |-> hostOk]
    /\ cause' = o.cause
    /\ ret' = o.ret
    /\ exporter' = NoExporter
    /\ circuit' = NotACircuit
    /\ stream' = <<>>
    /\ UNCHANGED <<process, probe, probeText>>

LoadsCall(src, custom, path, hostOk) ==
    \E o \in {LoadsOutcome(src, custom, path, hostOk)} :
        ImportCall("loads", NoFile, src, custom, path, hostOk, o)

LoadCall(file, src, custom, path, hostOk) ==
    \E o \in {LoadOutcome(file, src, custom, path, hostOk)} :
        ImportCall("load", file, src, custom, path, hostOk, o)

NoArgs == [circ |-> NotACircuit, kw |-> NoKwargs, streamOk |-> TRUE]

\* the call has returned and the caller has dropped its result; the process
\* lives on
Forget ==
    /\ ~Idle
    /\ op' = "none"
    /\ args' = NoArgs
    /\ cause' = "none"
    /\ ret' = UnitResult
    /\ exporter' = NoExporter
    /\ circuit' = NotACircuit
    /\ stream' = <<>>
    /\ UNCHANGED <<process, probe, probeText>>

\* the process ends and a new one starts: nothing of the last call is left
Restart ==
    /\ ~Idle
    /\ op' = "none"
    /\ args' = NoArgs
    /\ cause' = "none"
    /\ ret' = UnitResult
    /\ exporter' = NoExporter
    /\ circuit' = NotACircuit
    /\ stream' = <<>>
    /\ process' = EmptyMemo
    /\ UNCHANGED <<probe, probeText>>

(***************************************************************************)
(* The inputs of the model.                                                *)
(***************************************************************************)
RECURSIVE SeqsUpTo(_, _)
SeqsUpTo(S, n) ==
    IF n = 0 THEN {<<>>}
    ELSE LET shorter == SeqsUpTo(S, n - 1)
         IN shorter \cup {Append(s, x) : s \in {t \in shorter : Len(t) = n - 1}, x \in S}

\* the alias table of the model's circuits: a views q[1:2]
Aliases == <<[name |-> S_a, lo |-> 1, hi |-> 2]>>

I_h == Instr(S_h, 1, <<>>, <<Ref(S_q, 0)>>)
I_foo0 == Instr(S_foo, 1, <<>>, <<Ref(S_q, 0)>>)
I_foo1 == Instr(S_foo, 1, <<>>, <<Ref(S_q, 1)>>)
I_bar == Instr(S_bar, 1, <<"pi">>, <<Ref(S_q, 0)>>)
I_ha == Instr(S_h, 1, <<>>, <<Ref(S_a, 0)>>)
\* malformed: two operands for a gate of arity 1; a reference to an alias the table lacks
I_arity == Instr(S_foo, 1, <<>>, <<Ref(S_q, 0), Ref(S_q, 1)>>)
I_noalias == Instr(S_h, 1, <<>>, <<Ref(S_b, 0)>>)

AllInstrs == {I_h, I_foo0, I_foo1, I_bar, I_ha, I_arity, I_noalias}
FewInstrs == {I_foo0, I_bar, I_arity}

CircuitsOf(instrs, n) ==
    {PyCircuit(CircuitData(2, Aliases, is), layout) : is \in SeqsUpTo(instrs, n), layout \in BOOLEAN}

\* SpecHistory: short circuits, with and without a layout
HistoryCircuits == CircuitsOf(FewInstrs, SmallInstr)
\* SpecExport: every instruction of the model, and an object that is no circuit
ExportCircuits == CircuitsOf(AllInstrs, MaxInstr) \cup {NotACircuit}
OptionCircuits == {PyCircuit(CircuitData(2, Aliases, <<I_foo0, I_bar>>), TRUE), NotACircuit}

KwItems(inc, basis, consts, alias, ind, other) ==
    [k \in DictKeys |->
        IF k = "includes" THEN inc
        ELSE IF k = "basis_gates" THEN basis
        ELSE IF k = "disable_constants" THEN consts
        ELSE IF k = "allow_aliasing" THEN alias
        ELSE IF k = "indent" THEN ind
        ELSE other]

\* per key: absent, a value of the right type, a value the extraction refuses
IncludesValues == {Absent, VList(<<S_myinc>>), VStr(S_myinc)}
BasisValues == {Absent, VList(<<S_foo>>), VList(<<S_surrogate>>)}
ConstantsValues == {Absent, VBool(FALSE), VInt}
AliasingValues == {Absent, VBool(TRUE), VInt}
IndentValues == {Absent, VStr(S_nbsp), VStr(S_surrogate)}
OtherValues == {Absent, VInt}

\* SpecOptions: None, and every dict over the values above
OptionKwargs ==
    {NoKwargs} \cup
    {Dict(KwItems(i, b, c, a, n, o)) :
        i \in IncludesValues, b \in BasisValues, c \in ConstantsValues,
        a \in AliasingValues, n \in IndentValues, o \in OtherValues}

Only(key, v) == Dict([k \in DictKeys |-> IF k = key THEN v ELSE Absent])

\* SpecExport: None, and dicts of one key
ExportKwargs ==
    {NoKwargs, Only("includes", VList(<<>>)), Only("basis_gates", VList(<<S_foo>>)),
     Only("disable_constants", VBool(FALSE)), Only("allow_aliasing", VBool(TRUE)),
     Only("indent", VStr(S_nbsp)), Only("indent", VInt)}

\* SpecHistory
HistoryKwargs == {Only("allow_aliasing", VBool(TRUE)), Only("disable_constants", VBool(FALSE))}

Stmts == {Def(S_foo), Call(S_foo), Call(S_h), Call(S_my), Call(S_zz)}
Programs == SeqsUpTo(Stmts, MaxStmts)
Sources == {Source(e, p) : e \in BOOLEAN, p \in Programs}
CustomGates == {NoCustom} \cup {Custom(l) : l \in SeqsUpTo({S_my, S_h, S_foo}, MaxCustom)}
Paths == {NoPath, SomePath}
Files == {File("stream", TRUE), File("stream", FALSE), File("path", TRUE),
          File("path", FALSE), File("other", TRUE)}

(***************************************************************************)
(* Specifications.                                                         *)
(***************************************************************************)
InitWith(p) ==
    /\ op = "none"
    /\ args = NoArgs
    /\ cause = "none"
    /\ ret = UnitResult
    /\ exporter = NoExporter
    /\ circuit = NotACircuit
    /\ stream = <<>>
    /\ process = EmptyMemo
    /\ probe = p
    /\ probeText = NoProbeText

Init == InitWith(NoProbe)

\* One call per process: the two import entry points.
Loads == Idle /\ \E src \in Sources, custom \in CustomGates, path \in Paths, hostOk \in BOOLEAN :
            LoadsCall(src, custom, path, hostOk)
Load == Idle /\ \E file \in Files, src \in Sources, custom \in CustomGates, path \in Paths,
                   hostOk \in BOOLEAN :
            LoadCall(file, src, custom, path, hostOk)
Next == Loads \/ Load \/ Restart
Spec == Init /\ [][Next]_vars

\* One call per process: the exports over every combination of keyword options.
DumpsOptionsRich == Idle /\ \E c \in OptionCircuits, kw \in OptionKwargs : DumpsCall(c, kw)
DumpOptionsRich == Idle /\ \E c \in OptionCircuits, kw \in OptionKwargs, streamOk \in BOOLEAN :
                       DumpCall(c, kw, streamOk)
NextOptions == DumpsOptionsRich \/ DumpOptionsRich \/ Restart
SpecOptions == Init /\ [][NextOptions]_vars

\* One call per process: the exports over every circuit of the model.
DumpsCircuits == Idle /\ \E c \in ExportCircuits, kw \in ExportKwargs : DumpsCall(c, kw)
DumpCircuits == Idle /\ \E c \in ExportCircuits, kw \in ExportKwargs, streamOk \in BOOLEAN :
                    DumpCall(c, kw, streamOk)
NextExport == DumpsCircuits \/ DumpCircuits \/ Restart
SpecExport == Init /\ [][NextExport]_vars

\* Any sequence of exports in one process, with one input's first text remembered.
Dumps == Idle /\ \E c \in HistoryCircuits, kw \in HistoryKwargs : DumpsCall(c, kw)
Dump == Idle /\ \E c \in HistoryCircuits, kw \in HistoryKwargs : DumpCall(c, kw, TRUE)
InitHistory == \E c \in HistoryCircuits, kw \in HistoryKwargs : InitWith(ExportInput(c, kw))
NextHistory == Dumps \/ Dump \/ Forget
SpecHistory == InitHistory /\ [][NextHistory]_vars


(***************************************************************************)
(* Properties.                                                             *)
(***************************************************************************)
IsExport == op \in {"dumps", "dump"}
IsImport == op \in {"loads", "load"}

\* the last export produced a text: dumps returned it, dump handed it to the stream
Produced == (op = "dumps" /\ ret.ok) \/ (op = "dump" /\ Len(stream) = 1)
ProducedText == IF op = "dumps" THEN ret.text ELSE stream[1]

\* the caller's value under a key, read off the dict
Given(key) == HasItem(args.kw, key)
Value(key) == args.kw.items[key]

\* C1: the exporter of a dumps or dump call has includes = ["stdgates.inc"],
\* basis_gates empty, disable_constants true, allow_aliasing false and indent
\* two spaces, each field replaced by the caller's value exactly when the
\* kwargs hold its key; a key changes no other field.
C1_ExporterOptions ==
    (IsExport /\ exporter.made) =>
        /\ exporter.includes = IF Given("includes") THEN Value("includes").l ELSE <<S_stdgates>>
        /\ exporter.basis_gates = IF Given("basis_gates") THEN Value("basis_gates").l ELSE <<>>
        /\ exporter.disable_constants =
               IF Given("disable_constants") THEN Value("disable_constants").b ELSE TRUE
        /\ exporter.allow_aliasing =
               IF Given("allow_aliasing") THEN Value("allow_aliasing").b ELSE FALSE
        /\ exporter.indent = IF Given("indent") THEN Value("indent").s ELSE <<32, 32>>

\* a dump call whose kwargs hold basis_gates and indent and no other option key
C1_Witness ==
    /\ op = "dump" /\ exporter.made
    /\ Given("basis_gates") /\ Given("indent")
    /\ ~Given("includes") /\ ~Given("disable_constants") /\ ~Given("allow_aliasing")
    /\ exporter.basis_gates = <<S_foo>> /\ exporter.indent = S_nbsp
    /\ exporter.includes = <<S_stdgates>>

\* C8: dumps and dump do not accept an option key outside the five named
\* fields: a call whose kwargs hold such a key does not succeed.
C8_OtherKeyRefused == (IsExport /\ Given(OtherKey)) => ~ret.ok

\* C6: an export call leaves the circuit it reads unchanged (register,
\* instruction list, alias table), whether the export succeeds or fails.
C6_CircuitUnchanged ==
    IsExport =>
        /\ circuit.hasData = args.circ.hasData
        /\ circuit.layout = args.circ.layout
        /\ circuit.data.nq = args.circ.data.nq
        /\ circuit.data.instructions = args.circ.data.instructions
        /\ circuit.data.aliases = args.circ.data.aliases

\* a dump that failed in the exporter after it had emitted an instruction
C6_Witness ==
    /\ op = "dump" /\ cause = "export"
    /\ Len(args.circ.data.instructions) >= 2
    /\ ~Malformed(args.circ.data, args.circ.data.instructions[1])
    /\ circuit = args.circ

\* Reading the exported text: a line starts at the beginning or after a newline.
LineStart(text, i) == i = 1 \/ text[i - 1] = 10
StartsAt(text, i, pat) ==
    i + Len(pat) - 1 <= Len(text) /\ SubSeq(text, i, i + Len(pat) - 1) = pat
\* the name ends where a space or a parenthesis follows
NameEnds(text, j) == j <= Len(text) /\ text[j] \in {32, 40}
\* where the text holds a definition block of the gate: a line 'gate <name> ...'
DefLines(text, name) ==
    {i \in 1..Len(text) : LineStart(text, i) /\ StartsAt(text, i, S_gate \o name)
                          /\ NameEnds(text, i + Len(S_gate) + Len(name))}
\* where the text holds a use of the gate: a line '<name> ...' or '<name>(...'
UseLines(text, name) ==
    {i \in 1..Len(text) : LineStart(text, i) /\ StartsAt(text, i, name)
                          /\ NameEnds(text, i + Len(name))}

UsedNames(data) == {data.instructions[i].name : i \in 1..Len(data.instructions)}
UsesOf(data, name) == Cardinality({i \in 1..Len(data.instructions) : data.instructions[i].name = name})

\* the options the caller asked for, read off the kwargs
AskedBasis == IF Given("basis_gates") THEN Value("basis_gates").l ELSE <<>>
AskedIncludes == IF Given("includes") THEN Value("includes").l ELSE <<S_stdgates>>

\* C7: for every gate name the exported circuit uses: if it is a basis gate or
\* a declared include covers it, the text holds no definition block for it and
\* every use references it; otherwise the text holds exactly one definition
\* block for it, before its first use, however often it is used.
C7_GateDefinitions ==
    Produced =>
        \A name \in UsedNames(args.circ.data) :
            LET text == ProducedText
                defs == DefLines(text, name)
                uses == UseLines(text, name)
            IN /\ Cardinality(uses) = UsesOf(args.circ.data, name)
               /\ IF InSeq(name, AskedBasis)
                     \/ (InSeq(S_stdgates, AskedIncludes) /\ name \in StdGateNames)
                  THEN defs = {}
                  ELSE /\ Cardinality(defs) = 1
                       /\ \A d \in defs, u \in uses : d < u

\* a gate outside the basis and the includes, used three times, defined once
C7_Witness ==
    /\ op = "dumps" /\ ret.ok
    /\ UsesOf(args.circ.data, S_foo) = 3
    /\ ~InSeq(S_foo, AskedBasis)
    /\ Cardinality(DefLines(ret.text, S_foo)) = 1
    /\ Cardinality(UseLines(ret.text, S_foo)) = 3

\* the statements of a text: the lines that use a gate of the circuit
Statements(text, data) == UNION {UseLines(text, name) : name \in UsedNames(data)}

\* C9: dump invokes the stream's write at most once per call, only after the
\* whole export has succeeded and with the complete text (a statement for every
\* instruction); if the export fails the write is never invoked.
C9_AtomicWrite ==
    op = "dump" =>
        /\ Len(stream) <= 1
        /\ (cause \in {"options", "circuit", "export", "utf8"} => stream = <<>>)
        /\ (Len(stream) = 1 =>
               /\ cause \in {"none", "write"}
               /\ \A i \in 1..Len(args.circ.data.instructions) :
                      ~Malformed(args.circ.data, args.circ.data.instructions[i])
               /\ Cardinality(Statements(stream[1], args.circ.data))
                      = Len(args.circ.data.instructions))

\* a dump whose export failed after a first instruction had been emitted
C9_Witness ==
    /\ op = "dump" /\ cause = "export" /\ stream = <<>>
    /\ Len(args.circ.data.instructions) = 3
    /\ ~Malformed(args.circ.data, args.circ.data.instructions[1])
    /\ ~Malformed(args.circ.data, args.circ.data.instructions[2])

\* C10 as stated: for every circuit, layout presence and kwargs, dump succeeds
\* exactly when dumps succeeds, and the text dump writes is the string dumps
\* returns.
C10_SameAsDumps ==
    op = "dump" =>
        LET d == DumpsOutcome(args.circ, args.kw).ret
        IN /\ ret.ok <=> d.ok
           /\ d.ok => stream = <<d.text>>

\* C10, amended: dump hands a text to the stream's write exactly when dumps
\* succeeds, that text is the string dumps returns, and dump succeeds exactly
\* when dumps succeeds and the write does not raise.
C10_SameAsDumpsUnlessWriteRaises ==
    op = "dump" =>
        LET d == DumpsOutcome(args.circ, args.kw).ret
        IN /\ ret.ok <=> (d.ok /\ args.streamOk)
           /\ Len(stream) = 1 <=> d.ok
           /\ d.ok => stream = <<d.text>>
           /\ ~d.ok => (~ret.ok /\ stream = <<>>)

\* a dump with a caller's indent outside ASCII, over a circuit with a gate to define
C10_Witness ==
    /\ op = "dump" /\ ret.ok
    /\ Given("indent") /\ exporter.indent = S_nbsp
    /\ DefLines(stream[1], S_foo) # {}
    /\ stream[1] = DumpsOutcome(args.circ, args.kw).ret.text

\* C5: two export calls given the same circuit, layout presence and options
\* produce the same text, whatever export calls ran before or between them: a
\* later export of the probe input produces the text its first export produced.
C5_SameInputSameText ==
    (IsExport /\ probe.on /\ ExportInput(args.circ, args.kw) = probe /\ Produced) =>
        ProducedText = probeText.text

\* a repeated export of the probe input, after an export of another input, of a
\* circuit with a gate to define
C5_Witness ==
    /\ IsExport /\ probe.on /\ ExportInput(args.circ, args.kw) = probe /\ Produced
    /\ probeText.n = 2 /\ probeText.others
    /\ DefLines(ProducedText, S_foo) # {}

(***************************************************************************)
(* Properties of the import.                                               *)
(***************************************************************************)
Program == args.src.stmts
CallsOf(P) == {i \in 1..Len(P) : P[i].kind = "call"}
DefinedBefore(P, i) == \E j \in 1..(i - 1) : P[j].kind = "def" /\ P[j].name = P[i].name
IsCustom(custom, name) == custom.given /\ InSeq(name, custom.list)

\* how the claim resolves the call at i: user gate, custom gate, standard gate
ResolvedAsClaimed(P, custom, i) ==
    IF DefinedBefore(P, i) THEN "user"
    ELSE IF IsCustom(custom, P[i].name) THEN "custom"
    ELSE IF P[i].name \in StdGateNames THEN "std"
    ELSE "none"

\* how the code resolves it: the standard gates only when no custom gates are given
ResolvedAsBuilt(P, custom, i) ==
    IF DefinedBefore(P, i) THEN "user"
    ELSE IF IsCustom(custom, P[i].name) THEN "custom"
    ELSE IF ~custom.given /\ P[i].name \in StdGateNames THEN "std"
    ELSE "none"

BuildReached == IsImport /\ cause \in {"none", "build"}
FirstOf(S) == CHOOSE i \in S : \A j \in S : i <= j

\* C2 as stated: a gate call resolves to a user gate, else a custom gate, else a
\* standard-library gate, and the build fails only if none of the three
\* resolves; a standard gate resolves also when custom gates are supplied.
C2_ResolutionAsClaimed ==
    BuildReached =>
        (cause = "build" <=>
            \E i \in CallsOf(Program) : ResolvedAsClaimed(Program, args.custom, i) = "none")

\* C2, amended: a gate call resolves to a user gate in scope, else to a custom
\* gate when the caller supplies custom gates, else to a standard-library gate
\* when the caller supplies none; the build fails with a BuildError naming the
\* identifier exactly when a call resolves to none of these, so with custom
\* gates supplied a standard gate that is not among them does not resolve.
C2_Resolution ==
    BuildReached =>
        LET unresolved == {i \in CallsOf(Program) :
                              ResolvedAsBuilt(Program, args.custom, i) = "none"}
            calls == CallsOf(Program)
        IN /\ cause = "build" <=> unresolved # {}
           /\ cause = "build" =>
                  /\ ret.kind = "BuildError"
                  /\ ret.ident = Program[FirstOf(unresolved)].name
           /\ cause = "none" =>
                  /\ Len(ret.circ.instructions) = Cardinality(calls)
                  /\ \A i \in calls :
                         LET k == Cardinality({j \in calls : j <= i})
                         IN /\ ret.circ.instructions[k].via
                                = ResolvedAsBuilt(Program, args.custom, i)
                            /\ ret.circ.instructions[k].of = Program[i].name

\* custom gates are supplied, and a call of the standard gate h, which is not
\* among them, fails the build
C2_Witness ==
    /\ op = "loads" /\ cause = "build"
    /\ args.custom.given /\ ~InSeq(S_h, args.custom.list)
    /\ ret.ident = S_h /\ ret.kind = "BuildError"

\* every step of the import succeeded
StepsSucceeded ==
    /\ op = "load" => (args.file.kind \in {"stream", "path"} /\ args.file.ok)
    /\ args.path.given \/ args.hostOk
    /\ ~args.src.errors
    /\ args.custom.given \/ args.hostOk
    /\ \A i \in CallsOf(Program) : ResolvedAsBuilt(Program, args.custom, i) # "none"

\* C3: an import returns an error and no circuit whenever a step fails
\* (reading, the front-end, the gate table, the build), never a partial
\* circuit; it returns a circuit only when every step succeeded.
C3_AllOrNothing ==
    IsImport =>
        /\ ret.ok <=> StepsSucceeded
        /\ ret.ok => (ret.circ.made /\ cause = "none"
                      /\ Len(ret.circ.instructions) = Cardinality(CallsOf(Program)))
        /\ ~ret.ok => (ret.circ = NoCircuit /\ cause # "none")

\* a build that failed at the third statement after two calls had resolved
C3_Witness ==
    /\ op = "loads" /\ cause = "build" /\ ~args.custom.given
    /\ Len(Program) = 3
    /\ Program[1] = Call(S_h) /\ Program[2] = Call(S_h) /\ Program[3] = Call(S_zz)
    /\ ret.circ = NoCircuit

\* C4 as stated: a front-end failure reaches the caller with an error kind that
\* is none of the kinds of a build, file-read or export failure.
C4_DistinctKind ==
    (IsImport /\ cause = "frontend") =>
        ret.kind \notin {BuildErrorKind, ReadErrorKind, ExportErrorKind}

\* C4, amended: a front-end failure reaches the caller as QASM3ImporterError
\* with the message "errors during parsing; see printed errors" and no circuit;
\* a file-read failure of load has the same error kind and another message.
C4_ImporterError ==
    IsImport =>
        /\ cause = "frontend" =>
               /\ ~ret.ok /\ ret.circ = NoCircuit
               /\ ret.kind = "QASM3ImporterError"
               /\ ret.msg = "errors during parsing; see printed errors"
        /\ (cause = "read" /\ args.file.kind = "path") =>
               /\ ret.kind = "QASM3ImporterError"
               /\ ret.msg = "failed to read file"

\* a load that read its file and then failed in the front-end
C4_Witness ==
    /\ op = "load" /\ args.file.kind = "path" /\ args.file.ok
    /\ cause = "frontend" /\ args.src.errors
    /\ ret.kind = "QASM3ImporterError"

====
